---- MODULE Spec2Model ----
(***************************************************************************)
(* A model of the wordle solver of src/wordle-solver/guesser.py: the Trie  *)
(* with its constraint filter, the feedback encoder get_matches, and the   *)
(* Guesser (opening word, per-round filtering, entropy scoring, shortcut   *)
(* probes, the repeated-guess safety net, restart_game).                   *)
(*                                                                         *)
(* Words are sequences of one-letter strings; the empty str "" is <<>>.    *)
(* A python dict is a function whose DOMAIN is the key set; where the code *)
(* depends on the insertion order of a dict (trie children, Counter        *)
(* most_common) the keys are kept as a sequence in insertion order.        *)
(***************************************************************************)
EXTENDS Integers, Sequences, FiniteSets, TLC

VARIABLES
    wordlist_yaml,         \* the content of wordlist.yaml (read at construction)
    _word_list,            \* Guesser._word_list
    _word_trie,            \* Guesser._word_trie
    _tried,                \* Guesser._tried
    _tried_letter,         \* Guesser._tried_letter
    word_list,             \* Guesser.word_list
    word_trie,             \* Guesser.word_trie (NoAttr until first assigned)
    yellow,                \* Guesser.yellow    (NoAttr until subset_trie ran)
    gray,                  \* Guesser.gray
    green_pos,             \* Guesser.green_pos
    gray_pos,              \* Guesser.gray_pos
    letter_frequency_abs,  \* Guesser.letter_frequency_abs
    letter_frequency_pos,  \* Guesser.letter_frequency_pos
    opening,               \* Guesser.opening
    _pattern_cache,        \* Guesser._pattern_cache
    raised,                \* the exception that ended the last call, or NoError
    call,                  \* the last call made: its name and its arguments
    ret                    \* what the last call returned

vars == <<wordlist_yaml, _word_list, _word_trie, _tried, _tried_letter, word_list,
          word_trie, yellow, gray, green_pos, gray_pos, letter_frequency_abs,
          letter_frequency_pos, opening, _pattern_cache, raised, call, ret>>

guesserVars == <<wordlist_yaml, _word_list, _word_trie, _tried, _tried_letter,
                 word_list, word_trie, yellow, gray, green_pos, gray_pos,
                 letter_frequency_abs, letter_frequency_pos, opening>>

-----------------------------------------------------------------------------
(* Values and helpers of the python runtime.                               *)

\* The word length the Guesser hard-codes (len(result) == 5, range(5), size=5).
WordLen == 5

\* The letters the model's words are written in; str.isalpha() is membership.
Letters == {"a", "b", "c", "d", "e", "f"}

\* None, and an attribute that was never assigned, where a Trie may stand
None == [none |-> TRUE]
NoAttr == [noattr |-> TRUE]

\* the feedback containers before subset_trie first assigns them
NoAttrDict == ("NoAttr" :> 0)
NoAttrSet == {"NoAttr"}
NoAttrPos == (-1 :> "NoAttr")

NoError == "NoError"

\* no call has returned yet
NoReturn == [returned |-> FALSE]

Range(s) == {s[i] : i \in DOMAIN s}

Last(s) == s[Len(s)]

\* str.count(char) for a one-letter char, and list.count
Count(word, char) == Cardinality({i \in DOMAIN word : word[i] = char})

RECURSIVE Pow(_, _)
Pow(b, e) == IF e = 0 THEN 1 ELSE b * Pow(b, e - 1)

\* ''.join(words): the letters of a list of words, in order
RECURSIVE Join(_)
Join(words) == IF words = <<>> THEN <<>> ELSE Head(words) \o Join(Tail(words))

\* dict.get(key, default)
Get(dict, key, default) == IF key \in DOMAIN dict THEN dict[key] ELSE default

\* the empty dict
EmptyDict == [k \in {} |-> 0]

-----------------------------------------------------------------------------
(* class Trie.  root is the nested dict flattened: root[path] is the       *)
(* sequence of the keys (letters and "eow") of the dict reached from the   *)
(* root by path, in insertion order; list is Trie.list.                    *)

Trie == [root |-> (<<>> :> <<>>), list |-> <<>>]

RECURSIVE InsertFrom(_, _, _)
InsertFrom(root, word, i) ==
    LET cur == SubSeq(word, 1, i - 1) IN
    IF i > Len(word)
    THEN IF "eow" \in Range(root[cur]) THEN root
         ELSE [root EXCEPT ![cur] = Append(@, "eow")]
    ELSE IF word[i] \in Range(root[cur])
         THEN InsertFrom(root, word, i + 1)
         ELSE InsertFrom((SubSeq(word, 1, i) :> <<>>)
                            @@ [root EXCEPT ![cur] = Append(@, word[i])],
                         word, i + 1)

insert(self, word) ==
    [root |-> InsertFrom(self.root, word, 1), list |-> Append(self.list, word)]

\* the loop "for word in words: trie.insert(word)" on a fresh Trie
RECURSIVE InsertAll(_, _)
InsertAll(self, words) ==
    IF words = <<>> THEN self ELSE InsertAll(insert(self, Head(words)), Tail(words))

\* What dfs returns for a prefix that is dropped: the child dict is not attached.
DfsFalse == [valid |-> FALSE, node |-> EmptyDict, list |-> <<>>]

\* "for char, count in yellow_.items(): if count > 0 and count(char) < count".
\* yellow_ is the dfs parameter: the counts left after the decrements on the path.
YellowFails(current_word, yellow_) ==
    \E char \in DOMAIN yellow_ :
        yellow_[char] > 0 /\ Count(current_word, char) < yellow_[char]

\* GraySkip without the yellow test: every gray letter that is no green value
\* is skipped
GraySkipIgnoringYellow(c, char, yellow_) ==
    /\ char \in c.gray_set
    /\ char \notin c.green_values

\* "if char in gray_set and not yellow_.get(char, 0) and char not in green_values"
GraySkip(c, char, yellow_) ==
    /\ char \in c.gray_set
    /\ Get(yellow_, char, 0) = 0
    /\ char \notin c.green_values

\* "if char in yellow_ and yellow_[char] > 0: copy, decrement; else: yellow_"
UpdatedYellow(char, yellow_) ==
    IF char \in DOMAIN yellow_ /\ yellow_[char] > 0
    THEN [yellow_ EXCEPT ![char] = @ - 1]
    ELSE yellow_

\* dfs(cur, current_word, yellow_, new_node): cur is the node at path
\* current_word of c.root.  Returns the function's value (valid), the dicts of
\* the new trie at and under new_node (node) and the words appended to
\* new_trie.list (list).
RECURSIVE dfs(_, _, _)
RECURSIVE Explore(_, _, _, _, _)
dfs(c, current_word, yellow_) ==
    LET current_pos == Len(current_word) - 1
        cur == c.root[current_word]
    IN  IF /\ current_pos \in DOMAIN c.green_pos
           /\ Last(current_word) # c.green_pos[current_pos]
        THEN DfsFalse
        ELSE IF /\ current_pos \in DOMAIN c.gray_pos
                /\ Last(current_word) = c.gray_pos[current_pos]
        THEN DfsFalse
        ELSE IF "eow" \in Range(cur)
        THEN IF current_word = c.guess THEN DfsFalse
             ELSE IF YellowFails(current_word, yellow_) THEN DfsFalse
             ELSE [valid |-> TRUE, node |-> (current_word :> <<"eow">>),
                   list |-> <<current_word>>]
        ELSE Explore(c, current_word, yellow_, cur,
                     [valid |-> FALSE, node |-> (current_word :> <<>>), list |-> <<>>])

\* Explore with yellow decremented in place (no yellow.copy()): the decrement
\* made for one child is seen by the children after it
ExploreSharedYellow(c, current_word, yellow_, items, acc) ==
    IF items = <<>> THEN acc
    ELSE LET char == Head(items)
             sub == dfs(c, Append(current_word, char), UpdatedYellow(char, yellow_))
         IN  IF GraySkip(c, char, yellow_)
             THEN Explore(c, current_word, yellow_, Tail(items), acc)
             ELSE IF sub.valid
             THEN Explore(c, current_word, UpdatedYellow(char, yellow_), Tail(items),
                          [valid |-> TRUE,
                           node |-> sub.node @@
                                    [acc.node EXCEPT ![current_word] = Append(@, char)],
                           list |-> acc.list \o sub.list])
             ELSE Explore(c, current_word, UpdatedYellow(char, yellow_), Tail(items),
                          acc)

\* the loop "for char, next_node in items" of dfs, acc being new_node and the
\* words appended so far
Explore(c, current_word, yellow_, items, acc) ==
    IF items = <<>> THEN acc
    ELSE LET char == Head(items)
             sub == dfs(c, Append(current_word, char), UpdatedYellow(char, yellow_))
         IN  IF GraySkip(c, char, yellow_)
             THEN Explore(c, current_word, yellow_, Tail(items), acc)
             ELSE IF sub.valid
             THEN Explore(c, current_word, yellow_, Tail(items),
                          [valid |-> TRUE,
                           node |-> sub.node @@
                                    [acc.node EXCEPT ![current_word] = Append(@, char)],
                           list |-> acc.list \o sub.list])
             ELSE Explore(c, current_word, yellow_, Tail(items), acc)

\* filter_words pruning the dicts of self instead of building new ones: self
\* is left as the trie returned
filter_words_in_place(self, gray_, gray_pos_, yellow_, green_pos_, guess) ==
    LET c == [root |-> self.root, gray_set |-> gray_,
              green_values |-> Range(green_pos_), gray_pos |-> gray_pos_,
              green_pos |-> green_pos_, guess |-> guess]
        top == dfs(c, <<>>, yellow_)
    IN  [self |-> [root |-> top.node, list |-> top.list],
         new_trie |-> [root |-> top.node, list |-> top.list]]

\* Trie.filter_words: self after the call, and the trie returned
filter_words(self, gray_, gray_pos_, yellow_, green_pos_, guess) ==
    LET c == [root |-> self.root, gray_set |-> gray_,
              green_values |-> Range(green_pos_), gray_pos |-> gray_pos_,
              green_pos |-> green_pos_, guess |-> guess]
        top == dfs(c, <<>>, yellow_)
    IN  [self |-> self, new_trie |-> [root |-> top.node, list |-> top.list]]

-----------------------------------------------------------------------------
(* get_matches: the feedback pattern as a base-3 number.                   *)

RECURSIVE MatchesFrom(_, _, _)
MatchesFrom(source, target, i) ==
    IF i >= Len(target) THEN 0
    ELSE (IF source[i + 1] = target[i + 1] THEN 2 * Pow(3, i)
          ELSE IF source[i + 1] \in Range(target) THEN Pow(3, i)
          ELSE 0) + MatchesFrom(source, target, i + 1)

get_matches(source, target) == MatchesFrom(source, target, 0)

-----------------------------------------------------------------------------
(* The feedback containers subset_trie builds from the last guess and the  *)
(* result string: "+" gray, "-" yellow, a letter green.                    *)

IsAlpha(ch) == ch \in Letters

\* self.gray: "if result[i] == '+': self.gray.add(letter)"
FeedbackGray(guess, result) ==
    {guess[i] : i \in {j \in DOMAIN guess : result[j] = "+"}}

\* self.yellow: "elif result[i] == '-': self.yellow.update([letter])"
FeedbackYellow(guess, result) ==
    [letter \in {guess[i] : i \in {j \in DOMAIN guess : result[j] = "-"}} |->
        Cardinality({j \in DOMAIN guess : result[j] = "-" /\ guess[j] = letter})]

\* self.gray_pos: set on "+" and on "-"; keys are 0-based positions
FeedbackGrayPos(guess, result) ==
    [i \in {j - 1 : j \in {k \in DOMAIN guess : result[k] \in {"+", "-"}}} |->
        guess[i + 1]]

\* self.green_pos: "elif result[i].isalpha(): self.green_pos[i] = letter"
FeedbackGreenPos(guess, result) ==
    [i \in {j - 1 : j \in {k \in DOMAIN guess :
                             result[k] \notin {"+", "-"} /\ IsAlpha(result[k])}} |->
        guess[i + 1]]

-----------------------------------------------------------------------------
(* Trie.filter_words as a function of its arguments: the tries, guesses    *)
(* and result strings it is applied to.                                    *)

FilterWords == << <<"a","b","c","d","e">>, <<"a","a","b","c","d">>,
                  <<"b","c","a","d","e">>, <<"b","c","a","a","d">>,
                  <<"b","c","d","a","e">>, <<"b","b","c","d","e">> >>

FilterGuesses == { <<"a","a","b","c","d">>, <<"a","a","a","b","c">>,
                   <<"a","b","c","d","e">> }

ResultSymbols == {"+", "-", "a"}

\* the sub-lists of a list, order kept
RECURSIVE SubLists(_)
SubLists(list) ==
    IF list = <<>> THEN {<<>>}
    ELSE LET rest == SubLists(Tail(list))
         IN  rest \cup {<<Head(list)>> \o r : r \in rest}

GuesserAbsent ==
    /\ wordlist_yaml = <<>> /\ _word_list = <<>> /\ _word_trie = None
    /\ _tried = <<>> /\ _tried_letter = {} /\ word_list = <<>>
    /\ word_trie = NoAttr /\ yellow = NoAttrDict /\ gray = NoAttrSet
    /\ green_pos = NoAttrPos /\ gray_pos = NoAttrPos
    /\ letter_frequency_abs = <<>> /\ letter_frequency_pos = <<>>
    /\ opening = <<>>

FilterInit ==
    /\ GuesserAbsent
    /\ _pattern_cache = EmptyDict
    /\ raised = NoError
    /\ ret = NoReturn
    /\ \E words \in SubLists(FilterWords), guess \in FilterGuesses,
          result \in [1..WordLen -> ResultSymbols] :
          call = [op |-> "filter_words",
                  self |-> InsertAll(Trie, words),
                  guess |-> guess,
                  result |-> result,
                  gray |-> FeedbackGray(guess, result),
                  gray_pos |-> FeedbackGrayPos(guess, result),
                  yellow |-> FeedbackYellow(guess, result),
                  green_pos |-> FeedbackGreenPos(guess, result)]

\* filter_words is called, and called again on the trie it returned
FilterCall ==
    /\ call.op = "filter_words"
    /\ ret = NoReturn
    /\ LET once == filter_words(call.self, call.gray, call.gray_pos, call.yellow,
                                call.green_pos, call.guess)
           twice == filter_words(once.new_trie, call.gray, call.gray_pos,
                                 call.yellow, call.green_pos, call.guess)
       IN  ret' = [returned |-> TRUE, self |-> once.self,
                   new_trie |-> once.new_trie, again |-> twice.new_trie]
    /\ UNCHANGED <<guesserVars, _pattern_cache, raised, call>>

SpecFilter == FilterInit /\ [][FilterCall]_vars

-----------------------------------------------------------------------------
(* collections.Counter: a sequence of <<key, count>> in insertion order.   *)

RECURSIVE CounterAdd(_, _, _)
CounterAdd(counter, key, i) ==
    IF i > Len(counter) THEN Append(counter, <<key, 1>>)
    ELSE IF counter[i][1] = key
         THEN [counter EXCEPT ![i] = <<key, @[2] + 1>>]
         ELSE CounterAdd(counter, key, i + 1)

\* Counter(iterable)
RECURSIVE CounterFrom(_, _)
CounterFrom(counter, items) ==
    IF items = <<>> THEN counter
    ELSE CounterFrom(CounterAdd(counter, Head(items), 1), Tail(items))

Counter(items) == CounterFrom(<<>>, items)

CounterKeys(counter) == [i \in DOMAIN counter |-> counter[i][1]]

CounterValues(counter) == [i \in DOMAIN counter |-> counter[i][2]]

\* the index of the first entry with the greatest count
FirstMax(counter) ==
    CHOOSE i \in DOMAIN counter :
        /\ \A j \in DOMAIN counter : counter[j][2] <= counter[i][2]
        /\ \A j \in 1..(i - 1) : counter[j][2] < counter[i][2]

RemoveAt(s, i) == SubSeq(s, 1, i - 1) \o SubSeq(s, i + 1, Len(s))

\* Counter.most_common(n): by count, greatest first, ties in insertion order
RECURSIVE most_common(_, _)
most_common(counter, n) ==
    IF n = 0 \/ counter = <<>> THEN <<>>
    ELSE LET i == FirstMax(counter)
         IN  <<counter[i]>> \o most_common(RemoveAt(counter, i), n - 1)

-----------------------------------------------------------------------------
(* Guesser.  A method is an operator on self, the record of the object's   *)
(* attributes, and returns self after the call (with what it returned).    *)

Self ==
    [_word_list |-> _word_list, _word_trie |-> _word_trie, _tried |-> _tried,
     _tried_letter |-> _tried_letter, word_list |-> word_list,
     word_trie |-> word_trie, yellow |-> yellow, gray |-> gray,
     green_pos |-> green_pos, gray_pos |-> gray_pos,
     letter_frequency_abs |-> letter_frequency_abs,
     letter_frequency_pos |-> letter_frequency_pos, opening |-> opening,
     _pattern_cache |-> _pattern_cache]

\* the attributes of self' are the state after the call
Becomes(self) ==
    /\ _word_list' = self._word_list
    /\ _word_trie' = self._word_trie
    /\ _tried' = self._tried
    /\ _tried_letter' = self._tried_letter
    /\ word_list' = self.word_list
    /\ word_trie' = self.word_trie
    /\ yellow' = self.yellow
    /\ gray' = self.gray
    /\ green_pos' = self.green_pos
    /\ gray_pos' = self.gray_pos
    /\ letter_frequency_abs' = self.letter_frequency_abs
    /\ letter_frequency_pos' = self.letter_frequency_pos
    /\ opening' = self.opening
    /\ _pattern_cache' = self._pattern_cache

\* Guesser.update_frequencies() with abs=True, pos=True
update_frequencies(self) ==
    IF self.word_list = <<>> THEN self
    ELSE [self EXCEPT
            !.letter_frequency_abs = Counter(Join(self.word_list)),
            !.letter_frequency_pos =
                [i \in 0..(WordLen - 1) |->
                    Counter([k \in DOMAIN self.word_list |-> self.word_list[k][i + 1]])]]

\* "parent_trie = self.word_trie if hasattr(self, 'word_trie') and
\* self.word_trie else self._word_trie": TRUE when self.word_trie is taken
HasWordTrie(self) == self.word_trie # NoAttr /\ self.word_trie # None

\* Guesser.subset_trie(result).  filter_words runs on the parent object, so
\* what it leaves of the parent is what the attribute naming it holds after.
subset_trie(self, result) ==
    IF self._tried = <<>> THEN self
    ELSE IF Len(result) # WordLen THEN self
    ELSE LET guess == Last(self._tried)
             fed == [self EXCEPT !.yellow = FeedbackYellow(guess, result),
                                 !.gray = FeedbackGray(guess, result),
                                 !.green_pos = FeedbackGreenPos(guess, result),
                                 !.gray_pos = FeedbackGrayPos(guess, result)]
             parent_trie == IF HasWordTrie(fed) THEN fed.word_trie ELSE fed._word_trie
             filtered == filter_words(parent_trie, fed.gray, fed.gray_pos, fed.yellow,
                                      fed.green_pos, guess)
             after == IF HasWordTrie(fed) THEN fed
                      ELSE [fed EXCEPT !._word_trie = filtered.self]
         IN  [after EXCEPT !.word_trie = filtered.new_trie,
                           !.word_list = filtered.new_trie.list]

\* the orders "sorted(letters_left, key=lambda x: random())" is taken to
\* produce: the alphabetical order, rotated by one of Rotations
Rotations == {0, 1}

Alphabet == <<"a", "b", "c", "d", "e", "f">>

Sorted(S) == SelectSeq(Alphabet, LAMBDA x : x \in S)

Rotated(s, r) == [i \in DOMAIN s |-> s[((i - 1 + r) % Len(s)) + 1]]

Orderings(S) == {Rotated(Sorted(S), r) : r \in Rotations}

\* the paddings "np.random.choice(letters_left, size=n)" is taken to produce:
\* one letter of letters_left, n times
Paddings(S, n) == IF n = 0 THEN {<<>>} ELSE {[i \in 1..n |-> x] : x \in S}

\* Guesser.get_shortcut_words(): the set of its outcomes, one per value of
\* random() and np.random.choice.  np.random.choice([], size=5) raises.
get_shortcut_words(self) ==
    IF self.green_pos = NoAttrPos
    THEN {[raised |-> "AttributeError", shortcut_words |-> <<>>]}
    ELSE LET unique_letters == Range(CounterKeys(self.letter_frequency_abs))
             green_letters == Range(self.green_pos)
             yellow_letters == DOMAIN self.yellow
             letters_left == (unique_letters \ green_letters) \ yellow_letters
         IN  IF Cardinality(letters_left) > 5
             THEN {[raised |-> NoError, shortcut_words |-> <<>>]}
             ELSE IF letters_left = {}
             THEN {[raised |-> "ValueError", shortcut_words |-> <<>>]}
             ELSE {[raised |-> NoError, shortcut_words |-> <<shortcut_word \o pad>>] :
                     shortcut_word \in Orderings(letters_left),
                     pad \in Paddings(letters_left, 5 - Cardinality(letters_left))}

-----------------------------------------------------------------------------
(* Entropy.  With n targets and pattern counts c1..ck the entropy is        *)
(* log2(n) - log2(c1^c1 * ... * ck^ck) / n, so for one n a smaller product  *)
(* (key) is a greater entropy.  The code adds the terms -p*log2(p) in       *)
(* floating point in the order of the counts (seq): two distributions with *)
(* the same key but another order of counts can round to different floats. *)
(* Which of them rounds higher is a property of the platform: top is the   *)
(* order of counts that rounds highest, <<>> when none does.               *)

\* float("-inf"), and the int 0 returned for no targets
NegInf == [key |-> 0, seq |-> <<>>]
ZeroEntropy == [key |-> 1, seq |-> <<>>]

RECURSIVE Sum(_)
Sum(seq) == IF seq = <<>> THEN 0 ELSE Head(seq) + Sum(Tail(seq))

RECURSIVE KeyOf(_)
KeyOf(counts) ==
    IF counts = <<>> THEN 1
    ELSE Pow(Head(counts), Head(counts)) * KeyOf(Tail(counts))

\* "for count in pattern_distribution.values(): ... entropy -= prob * log2(prob)"
Entropy(pattern_distribution) ==
    [key |-> KeyOf(CounterValues(pattern_distribution)),
     seq |-> CounterValues(pattern_distribution)]

IsPow2(k) == \E e \in 0..k : Pow(2, e) = k

\* every prob = count / tot_counts is a power of 1/2: no term is rounded
Dyadic(seq) ==
    \A i \in DOMAIN seq : Sum(seq) % seq[i] = 0 /\ IsPow2(Sum(seq) \div seq[i])

\* the float sum can depend on the order of its terms
Sensitive(seq) == Len(seq) >= 3 /\ ~Dyadic(seq)

\* "entropy >= max_entropy": a tie replaces the best guess
GreaterOrEqual(entropy, max_entropy, top) ==
    \/ max_entropy = NegInf
    \/ entropy.key <= max_entropy.key

\* "entropy > max_entropy" on floats
Greater(entropy, max_entropy, top) ==
    \/ max_entropy = NegInf
    \/ entropy.key < max_entropy.key
    \/ /\ entropy.key = max_entropy.key
       /\ entropy.seq # max_entropy.seq
       /\ Sensitive(entropy.seq) \/ Sensitive(max_entropy.seq)
       /\ entropy.seq = top

RECURSIVE Compositions(_)
Compositions(n) ==
    IF n = 0 THEN {<<>>}
    ELSE UNION {{<<k>> \o r : r \in Compositions(n - k)} : k \in 1..n}

\* the orders of counts of n targets that the platform may round highest
Roundings(n) == {<<>>} \cup {seq \in Compositions(n) : Sensitive(seq)}

\* "for w2 in targets: if w2 not in cur: cur[w2] = get_matches(w1, w2);
\*  pattern_distribution[cur[w2]] += 1"
RECURSIVE Patterns(_, _, _, _)
Patterns(cur, pattern_distribution, w1, targets) ==
    IF targets = <<>>
    THEN [cur |-> cur, pattern_distribution |-> pattern_distribution]
    ELSE LET w2 == Head(targets)
             stored == IF w2 \in DOMAIN cur THEN cur
                       ELSE cur @@ (w2 :> get_matches(w1, w2))
         IN  Patterns(stored, CounterAdd(pattern_distribution, stored[w2], 1),
                      w1, Tail(targets))

\* the cache with "if w1 not in self._pattern_cache: self._pattern_cache[w1] = {}"
WithEntry(cache, w1) ==
    IF w1 \in DOMAIN cache THEN cache ELSE cache @@ (w1 :> EmptyDict)

\* one pass of the loop "for w1 in sources", scored being what the loop over
\* the targets left: the cache and the best guess after it
Scored(cache, w1, scored, best_guess, max_entropy, top) ==
    IF Greater(Entropy(scored.pattern_distribution), max_entropy, top)
    THEN [_pattern_cache |-> [cache EXCEPT ![w1] = scored.cur],
          best_guess |-> w1,
          max_entropy |-> Entropy(scored.pattern_distribution)]
    ELSE [_pattern_cache |-> [cache EXCEPT ![w1] = scored.cur],
          best_guess |-> best_guess,
          max_entropy |-> max_entropy]

\* the loop "for w1 in sources" of get_max_entropy_word, so_far being the
\* cache and the best guess before the sources left
RECURSIVE Score(_, _, _, _)
Score(so_far, sources, targets, top) ==
    IF sources = <<>> THEN so_far
    ELSE Score(Scored(WithEntry(so_far._pattern_cache, Head(sources)), Head(sources),
                      Patterns(WithEntry(so_far._pattern_cache, Head(sources))[Head(sources)],
                               <<>>, Head(sources), targets),
                      so_far.best_guess, so_far.max_entropy, top),
               Tail(sources), targets, top)

\* Guesser.get_max_entropy_word(sources, targets): the cache after the call
\* and the pair returned
get_max_entropy_word(cache, sources, targets, top) ==
    IF Len(targets) = 0
    THEN [_pattern_cache |-> cache,
          best_guess |-> IF sources # <<>> THEN sources[1] ELSE <<>>,
          max_entropy |-> ZeroEntropy]
    ELSE Score([_pattern_cache |-> cache, best_guess |-> <<>>, max_entropy |-> NegInf],
               sources, targets, top)

-----------------------------------------------------------------------------
(* Guess selection.                                                        *)

\* itertools.product(*lists), in its order (the last list varies fastest)
RECURSIVE product(_)
product(lists) ==
    IF lists = <<>> THEN << <<>> >>
    ELSE LET rest == product(Tail(lists))
             first == Head(lists)
         IN  [k \in 1..(Len(first) * Len(rest)) |->
                <<first[((k - 1) \div Len(rest)) + 1]>> \o rest[((k - 1) % Len(rest)) + 1]]

\* "letters_by_position" and "candidates" of frequency_guess_non_word
Candidates(self) ==
    SelectSeq(product([i \in 1..5 |->
                          CounterKeys(most_common(self.letter_frequency_pos[i - 1], 3))]),
              LAMBDA combination : Cardinality(Range(combination)) = 5)

\* self with the Pattern Cache a call of get_max_entropy_word left, and the
\* guess it returned
WithBest(self, best) ==
    [self |-> [self EXCEPT !._pattern_cache = best._pattern_cache],
     raised |-> NoError, guess |-> best.best_guess]

\* frequency_guess_non_word from "if not candidates" on
GuessAmong(self, candidates, top) ==
    IF candidates = <<>>
    THEN [self |-> self, raised |-> NoError,
          guess |-> CounterKeys(most_common(self.letter_frequency_abs, 5))]
    ELSE WithBest(self, get_max_entropy_word(self._pattern_cache, candidates,
                                             self.word_list, top))

\* Guesser.frequency_guess_non_word(): self after the call and the word
frequency_guess_non_word(self, top) == GuessAmong(self, Candidates(self), top)

\* "max_possible_entropy - entropy < 0.5" for remaining_words targets:
\* log2(key) / n < 1/2
CloseToOptimal(entropy, remaining_words) ==
    entropy.key * entropy.key < Pow(2, remaining_words)

\* "remaining_words > 2 and len(self._tried) < 5" of a list the entropy branch
\* takes: get_shortcut_words is called
CallsShortcut(self) ==
    /\ Len(self.word_list) > 2 /\ Len(self.word_list) < 50
    /\ Len(self._tried) < 5

\* the result of get_shortcut_words when it is not called
NoShortcut == [raised |-> NoError, shortcut_words |-> <<>>]

\* _get_guess from "if (max_possible_entropy - entropy < 0.5 ..." on, best
\* being what get_max_entropy_word returned
EntropyOrFrequency(self, best, top) ==
    IF CloseToOptimal(best.max_entropy, Len(self.word_list)) \/ Len(self._tried) >= 5
    THEN WithBest(self, best)
    ELSE frequency_guess_non_word(WithBest(self, best).self, top)

\* _get_guess from "if remaining_words < 50" on
ScoreCandidates(self, shortcut, top) ==
    IF Len(self.word_list) < 50
    THEN IF CallsShortcut(self) /\ shortcut.raised # NoError
         THEN [self |-> self, raised |-> shortcut.raised, guess |-> <<>>]
         ELSE EntropyOrFrequency(
                  self,
                  get_max_entropy_word(self._pattern_cache,
                                       self.word_list \o shortcut.shortcut_words,
                                       self.word_list, top),
                  top)
    ELSE frequency_guess_non_word(self, top)

\* _get_guess after self.update_frequencies(), without
\* "if remaining_words == 1: return self.word_list[0]": a single candidate is
\* scored like any list
ChooseScoringOne(self, shortcut, top) ==
    IF Len(self.word_list) = 0
    THEN [self |-> self, raised |-> NoError, guess |-> <<>>]
    ELSE ScoreCandidates(self, shortcut, top)

_get_guess_scoring_one(self, shortcut, top) ==
    ChooseScoringOne(update_frequencies(self), shortcut, top)

\* _get_guess after self.update_frequencies()
Choose(self, shortcut, top) ==
    IF Len(self.word_list) = 0
    THEN [self |-> self, raised |-> NoError, guess |-> <<>>]
    ELSE IF Len(self.word_list) = 1
    THEN [self |-> self, raised |-> NoError, guess |-> self.word_list[1]]
    ELSE ScoreCandidates(self, shortcut, top)

\* Guesser._get_guess(), shortcut being what get_shortcut_words produces:
\* self after the call, the exception raised and the guess returned
_get_guess(self, shortcut, top) == Choose(update_frequencies(self), shortcut, top)

\* "while guess in self._tried or len(guess) != 5"
NeedsReplacement(self, guess) == guess \in Range(self._tried) \/ Len(guess) # 5

\* "''.join(np.random.choice(list(''.join(self._tried)), size=5))" for the
\* indices draw that np.random.choice picks
Drawn(self, draw) == [i \in 1..5 |-> Join(self._tried)[draw[i]]]

\* "if (self._tried and len(result) == 5): self.subset_trie(result)"
Filtered(self, result) ==
    IF self._tried # <<>> /\ Len(result) = 5 THEN subset_trie(self, result) ELSE self

\* "guess = self.opening" or "guess = self._get_guess()"
OpeningOrGuess(self, shortcut, top) ==
    IF self._tried = <<>>
    THEN [self |-> self, raised |-> NoError, guess |-> self.opening]
    ELSE _get_guess(self, shortcut, top)

\* Guesser.get_guess(result) in "auto" mode up to the while loop: the
\* filtering and the choice of the guess.  shortcut and top are the outcomes
\* of the random calls of get_shortcut_words and of the float rounding.
choose_guess(self, result, shortcut, top) ==
    OpeningOrGuess(Filtered(self, result), shortcut, top)

\* get_guess from the while loop on, without the loop: the chosen guess is
\* recorded as it is
Record(chosen, draw) ==
    IF chosen.raised # NoError
    THEN [self |-> chosen.self, raised |-> chosen.raised, guess |-> <<>>]
    ELSE [self |-> [chosen.self EXCEPT !._tried = Append(@, chosen.guess)],
          raised |-> NoError, guess |-> chosen.guess]

get_guess_unchecked(self, result, shortcut, top, draw) ==
    Record(choose_guess(self, result, shortcut, top), draw)

\* get_guess from the while loop on; draw is the draw that ends the loop
ReplaceAndRecord(chosen, draw) ==
    IF chosen.raised # NoError
    THEN [self |-> chosen.self, raised |-> chosen.raised, guess |-> <<>>]
    ELSE IF ~NeedsReplacement(chosen.self, chosen.guess)
    THEN [self |-> [chosen.self EXCEPT !._tried = Append(@, chosen.guess)],
          raised |-> NoError, guess |-> chosen.guess]
    ELSE IF chosen.self._tried = <<>>
    THEN [self |-> chosen.self, raised |-> "ValueError", guess |-> <<>>]
    ELSE [self |-> [chosen.self EXCEPT !._tried = Append(@, Drawn(chosen.self, draw))],
          raised |-> NoError, guess |-> Drawn(chosen.self, draw)]

\* Guesser.get_guess(result): self after the call, the exception raised and
\* the guess returned
get_guess(self, result, shortcut, top, draw) ==
    ReplaceAndRecord(choose_guess(self, result, shortcut, top), draw)

\* Guesser.restart_game()
restart_game(self) ==
    [self EXCEPT !._tried = <<>>,
                 !._tried_letter = Range(self.opening),
                 !.word_list = self._word_list,
                 !.word_trie = None]

\* "self.opening = self.frequency_guess_non_word()"
WithOpening(first) == [first.self EXCEPT !.opening = first.guess]

\* Guesser.__init__("auto") with wordlist.yaml holding words
Guesser(words, top) ==
    WithOpening(frequency_guess_non_word(
        update_frequencies(
            [_word_list |-> words, _word_trie |-> InsertAll(Trie, words),
             _tried |-> <<>>, _tried_letter |-> {}, word_list |-> words,
             word_trie |-> NoAttr, yellow |-> NoAttrDict, gray |-> NoAttrSet,
             green_pos |-> NoAttrPos, gray_pos |-> NoAttrPos,
             letter_frequency_abs |-> <<>>, letter_frequency_pos |-> EmptyDict,
             opening |-> <<>>, _pattern_cache |-> EmptyDict]),
        top))

-----------------------------------------------------------------------------
(* The Guesser played: constructed on a dictionary, then get_guess and     *)
(* restart_game called in any order, as multiple_runs.py and the game do.  *)

\* the longest Guess History of a game, and the number of games played
MaxTried == 3
MaxGames == 2

W(a, b, c, d, e) == <<a, b, c, d, e>>

\* the contents of wordlist.yaml
Dictionaries ==
    { << W("a","a","b","c","d"), W("a","a","d","b","c"),
         W("a","a","d","c","b"), W("a","a","b","c","e") >>,
      << W("a","b","c","d","e"), W("b","c","d","e","a"),
         W("c","d","e","a","b"), W("a","b","c","d","f") >> }

\* hidden words that are in no dictionary: their feedback contradicts it
StrangeWords == { W("f","f","f","f","f") }

\* the result string of the game for a guess and a hidden word: the digits
\* of get_matches, 2 as the letter, 1 as "-", 0 as "+"
ResultFor(guess, hidden) ==
    [i \in 1..WordLen |->
        LET digit == (get_matches(guess, hidden) \div Pow(3, i - 1)) % 3
        IN  IF digit = 2 THEN guess[i] ELSE IF digit = 1 THEN "-" ELSE "+"]

\* a result string of the wrong length
Malformed == <<"+", "-", "+">>

\* the result strings passed to get_guess: none before the first guess
Results ==
    IF _tried = <<>> THEN {<<>>}
    ELSE {ResultFor(Last(_tried), hidden) :
            hidden \in Range(wordlist_yaml) \cup StrangeWords} \cup {Malformed}

\* the draws of np.random.choice for a replacement guess: the letter at one
\* of FirstDraws of the tried letters first, then those at 2..5
FirstDraws == {1, 2}

DrawIndices == {[i \in 1..5 |-> IF i = 1 THEN k ELSE i] : k \in FirstDraws}

\* the draws that end the while loop of get_guess
Draws(chosen) ==
    IF /\ chosen.raised = NoError
       /\ NeedsReplacement(chosen.self, chosen.guess)
       /\ chosen.self._tried # <<>>
    THEN {draw \in DrawIndices : ~NeedsReplacement(chosen.self, Drawn(chosen.self, draw))}
    ELSE {[i \in 1..5 |-> i]}

\* the trie subset_trie filters for this result, before and after the call
\* of filter_words; None when get_guess does not filter
ParentBefore(self, result) ==
    IF self._tried = <<>> \/ Len(result) # WordLen THEN None
    ELSE IF HasWordTrie(self) THEN self.word_trie ELSE self._word_trie

ParentAfter(self, result) ==
    IF self._tried = <<>> \/ Len(result) # WordLen THEN None
    ELSE filter_words(ParentBefore(self, result),
                      FeedbackGray(Last(self._tried), result),
                      FeedbackGrayPos(Last(self._tried), result),
                      FeedbackYellow(Last(self._tried), result),
                      FeedbackGreenPos(Last(self._tried), result),
                      Last(self._tried)).self

Is(self) ==
    /\ _word_list = self._word_list
    /\ _word_trie = self._word_trie
    /\ _tried = self._tried
    /\ _tried_letter = self._tried_letter
    /\ word_list = self.word_list
    /\ word_trie = self.word_trie
    /\ yellow = self.yellow
    /\ gray = self.gray
    /\ green_pos = self.green_pos
    /\ gray_pos = self.gray_pos
    /\ letter_frequency_abs = self.letter_frequency_abs
    /\ letter_frequency_pos = self.letter_frequency_pos
    /\ opening = self.opening
    /\ _pattern_cache = self._pattern_cache

\* guesser = Guesser("auto")
Init ==
    \E words \in Dictionaries :
        \E top \in Roundings(Len(words)) :
            /\ wordlist_yaml = words
            /\ Is(Guesser(words, top))
            /\ raised = NoError
            /\ call = [op |-> "__init__", result |-> <<>>, feedback_ok |-> TRUE,
                       parent |-> None, game |-> 1]
            /\ ret = NoReturn

\* the outcomes of get_shortcut_words in a call of get_guess that filtered
\* and updated the frequencies to self
Shortcuts(self) ==
    IF self._tried # <<>> /\ CallsShortcut(self)
    THEN get_shortcut_words(self) ELSE {NoShortcut}

\* guesser.get_guess(result)
GetGuess ==
    /\ raised = NoError
    /\ Len(_tried) < MaxTried
    /\ \E result \in Results :
       \E fresh \in {update_frequencies(Filtered(Self, result))} :
       \E shortcut \in Shortcuts(fresh) :
       \E top \in Roundings(Len(fresh.word_list)) :
       \E draw \in Draws(choose_guess(Self, result, shortcut, top)) :
       \E done \in {get_guess(Self, result, shortcut, top, draw)} :
            /\ Becomes(done.self)
            /\ raised' = done.raised
            /\ call' = [op |-> "get_guess", result |-> result,
                        feedback_ok |-> /\ call.feedback_ok
                                        /\ _tried # <<>> => Len(result) = WordLen,
                        parent |-> ParentBefore(Self, result),
                        game |-> call.game]
            /\ ret' = [returned |-> done.raised = NoError,
                       guess |-> done.guess,
                       parent |-> ParentAfter(Self, result)]
    /\ UNCHANGED wordlist_yaml

\* guesser.restart_game()
RestartGame ==
    /\ raised = NoError
    /\ call.game < MaxGames
    /\ Becomes(restart_game(Self))
    /\ call' = [op |-> "restart_game", result |-> <<>>,
                feedback_ok |-> call.feedback_ok, parent |-> None,
                game |-> call.game + 1]
    /\ ret' = [returned |-> TRUE, guess |-> <<>>, parent |-> None]
    /\ UNCHANGED <<wordlist_yaml, raised>>

Next == GetGuess \/ RestartGame

Spec == Init /\ [][Next]_vars

-----------------------------------------------------------------------------
(* Guesser.get_max_entropy_word as a function of its arguments and of the  *)
(* Pattern Cache the calls before it left.                                 *)

\* the number of calls in a row
MaxCalls == 2

\* sources are sub-lists of this list
EntropySources ==
    << W("c","c","b","a","a"), W("a","c","a","b","b"), W("c","c","a","c","a") >>

\* targets are the first words of this list
EntropyTargets ==
    << W("c","c","b","a","a"), W("a","c","a","b","b"), W("a","c","a","c","b"),
       W("c","c","a","a","c"), W("c","c","a","b","a"), W("c","c","a","c","a") >>

EntropyInit ==
    /\ GuesserAbsent
    /\ _pattern_cache = EmptyDict
    /\ raised = NoError
    /\ call = [op |-> "__init__", sources |-> <<>>, targets |-> <<>>, n |-> 0]
    /\ ret = NoReturn

\* self.get_max_entropy_word(sources, targets)
EntropyCall ==
    /\ call.n < MaxCalls
    /\ \E sources \in SubLists(EntropySources), k \in 0..Len(EntropyTargets) :
        LET targets == SubSeq(EntropyTargets, 1, k)
        IN  \E top \in Roundings(Len(targets)) :
                LET done == get_max_entropy_word(_pattern_cache, sources, targets, top)
                IN  /\ _pattern_cache' = done._pattern_cache
                    /\ call' = [op |-> "get_max_entropy_word", sources |-> sources,
                                targets |-> targets, n |-> call.n + 1]
                    /\ ret' = [returned |-> TRUE, best_guess |-> done.best_guess,
                               max_entropy |-> done.max_entropy]
    /\ UNCHANGED <<guesserVars, raised>>

SpecEntropy == EntropyInit /\ [][EntropyCall]_vars

-----------------------------------------------------------------------------
(* Properties of Trie.filter_words (checked under SpecFilter).             *)

\* the words of a trie
Words(trie) == Range(trie.list)

\* w[p] == green_pos[p] for every green position
GreenOk(w) == \A p \in DOMAIN call.green_pos : w[p + 1] = call.green_pos[p]

\* w[p] != gray_pos[p] for every gray position
GrayPosOk(w) == \A p \in DOMAIN call.gray_pos : w[p + 1] # call.gray_pos[p]

\* w contains every yellow letter at least its required count
YellowOk(w) == \A x \in DOMAIN call.yellow : Count(w, x) >= call.yellow[x]

\* w contains no letter that is gray, has no yellow count and is no green value
GrayAbsentOk(w) ==
    \A x \in call.gray :
        (Get(call.yellow, x, 0) = 0 /\ x \notin Range(call.green_pos))
            => Count(w, x) = 0

\* w contains a gray letter that is no green value at most as often as its
\* yellow count (not at all without one)
GrayAtMostYellowOk(w) ==
    \A x \in call.gray \ Range(call.green_pos) :
        Count(w, x) <= Get(call.yellow, x, 0)

\* C1: every word of the returned trie contains each letter x with
\* yellow[x] = c > 0 at least c times.
C1_YellowAtLeastCount ==
    ret.returned => \A w \in Words(ret.new_trie) : YellowOk(w)

\* C2 as stated: every word of the source trie that meets the green, gray
\* position and yellow conditions, contains no gray letter without yellow
\* count or green value, and is not the guess, is in the returned trie.
C2_KeepsEveryWordMeetingConditions ==
    ret.returned =>
        \A w \in Words(call.self) :
            (GreenOk(w) /\ GrayPosOk(w) /\ YellowOk(w) /\ GrayAbsentOk(w)
                /\ w # call.guess)
            => w \in Words(ret.new_trie)

\* C2 amended: as C2, with the gray condition read as the code applies it: a
\* gray letter that is no green value occurs in w at most as often as its
\* yellow count.  Every such word of the source trie is in the returned trie.
C2_KeepsEveryWordWithinGrayCount ==
    ret.returned =>
        \A w \in Words(call.self) :
            (GreenOk(w) /\ GrayPosOk(w) /\ YellowOk(w) /\ GrayAtMostYellowOk(w)
                /\ w # call.guess)
            => w \in Words(ret.new_trie)

\* C2's case: a word is kept that contains a letter which is gray and has a
\* yellow count
C2_Witness ==
    /\ ret.returned
    /\ \E w \in Words(ret.new_trie) :
          /\ GreenOk(w) /\ GrayPosOk(w) /\ YellowOk(w) /\ GrayAtMostYellowOk(w)
          /\ \E x \in call.gray \cap DOMAIN call.yellow : Count(w, x) > 0

\* C7: the words of the returned trie are words of the source trie (so there
\* are no more of them), and filtering the returned trie again with the same
\* constraints returns the same words.
C7_SubsetAndIdempotent ==
    ret.returned =>
        /\ Words(ret.new_trie) \subseteq Words(call.self)
        /\ Len(ret.new_trie.list) <= Len(call.self.list)
        /\ Words(ret.again) = Words(ret.new_trie)

\* C7's case: the filter dropped some words and kept others
C7_Witness ==
    /\ ret.returned
    /\ Len(ret.new_trie.list) > 0
    /\ Len(ret.new_trie.list) < Len(call.self.list)
    /\ DOMAIN call.yellow # {}

\* the result string that encodes get_matches(guess, target): digit 2 a letter,
\* digit 1 "-", digit 0 "+"
RECURSIVE Digits(_, _)
Digits(score, n) ==
    IF n = 0 THEN <<>> ELSE <<score % 3>> \o Digits(score \div 3, n - 1)

EncodesMatches(result, guess, target) ==
    LET digits == Digits(get_matches(guess, target), Len(target))
    IN  \A i \in DOMAIN result :
            \/ digits[i] = 2 /\ IsAlpha(result[i])
            \/ digits[i] = 1 /\ result[i] = "-"
            \/ digits[i] = 0 /\ result[i] = "+"

\* C10: a word t of the source trie other than the guess, whose get_matches
\* feedback against the guess is the result string the constraints were built
\* from, is in the returned trie.
C10_HiddenWordSurvives ==
    ret.returned =>
        \A t \in Words(call.self) :
            (t # call.guess /\ EncodesMatches(call.result, call.guess, t))
            => t \in Words(ret.new_trie)

-----------------------------------------------------------------------------
(* Properties of the Guesser (checked under Spec).                         *)

\* C3: with every feedback string of length 5, get_guess never raises: it
\* always completes and returns a guess.
C3_GetGuessNeverRaises == call.feedback_ok => raised = NoError

\* C4: every word get_guess returns has length 5 and differs from every guess
\* already in the Guess History of the current game, which it is appended to.
C4_ReturnsFreshWordOfLength5 ==
    [][(call'.op = "get_guess" /\ raised' = NoError) =>
         /\ Len(ret'.guess) = WordLen
         /\ ret'.guess \notin Range(_tried)
         /\ _tried' = Append(_tried, ret'.guess)]_vars

\* get_guess has returned a replacement for the empty guess of an empty
\* candidate list
C4_Witness ==
    /\ call.op = "get_guess" /\ ret.returned
    /\ Len(_tried) >= 2
    /\ word_list = <<>>
    /\ ret.guess = Last(_tried)

\* no constraint is held: the containers are empty or were never assigned
ConstraintSetEmpty ==
    /\ yellow = NoAttrDict \/ DOMAIN yellow = {}
    /\ gray = NoAttrSet \/ gray = {}
    /\ green_pos = NoAttrPos \/ DOMAIN green_pos = {}
    /\ gray_pos = NoAttrPos \/ DOMAIN gray_pos = {}

\* C5: restart_game clears the Guess History and the Constraint Set, resets
\* the candidate list to the full Dictionary and leaves the Pattern Cache and
\* the opening word unchanged; the first guess of the next game is the opening.
C5_RestartClearsGameState ==
    [][/\ call'.op = "restart_game" =>
            /\ _tried' = <<>>
            /\ ConstraintSetEmpty'
            /\ word_list' = wordlist_yaml'
            /\ _pattern_cache' = _pattern_cache
            /\ opening' = opening
       /\ (call'.op = "get_guess" /\ _tried = <<>> /\ raised' = NoError) =>
            ret'.guess = opening]_vars

\* C6: filter_words leaves the trie it is called on as it was, and the
\* Dictionary and the trie built from it at construction keep their words.
C6_SourceTrieAndDictionaryUnchanged ==
    /\ _word_list = wordlist_yaml
    /\ _word_trie = InsertAll(Trie, wordlist_yaml)
    /\ call.op = "get_guess" => ret.parent = call.parent

\* in a second game the trie built at construction was filtered again, to a
\* candidate trie with fewer words
C6_Witness ==
    /\ call.op = "get_guess" /\ call.game = 2
    /\ call.parent = InsertAll(Trie, wordlist_yaml)
    /\ HasWordTrie(Self)
    /\ Len(word_trie.list) < Len(wordlist_yaml)

\* C8 as stated: in a round after the first, a candidate list of exactly one
\* word makes get_guess return that word, with no entropy scoring (the Pattern
\* Cache is not touched) and no replacement by the safety net.
C8_SingleCandidateIsReturned ==
    [][(call'.op = "get_guess" /\ _tried # <<>> /\ Len(word_list') = 1) =>
         /\ raised' = NoError
         /\ ret'.guess = word_list'[1]
         /\ _pattern_cache' = _pattern_cache]_vars

\* C8 amended: the same, for a single candidate that is not in the Guess
\* History yet.
C8_UntriedSingleCandidateIsReturned ==
    [][(/\ call'.op = "get_guess" /\ _tried # <<>> /\ Len(word_list') = 1
        /\ word_list'[1] \notin Range(_tried)) =>
         /\ raised' = NoError
         /\ ret'.guess = word_list'[1]
         /\ _pattern_cache' = _pattern_cache]_vars

\* get_guess has returned the single candidate, in a round after the first
C8_Witness ==
    /\ call.op = "get_guess" /\ ret.returned
    /\ Len(_tried) >= 2
    /\ Len(word_list) = 1
    /\ ret.guess = word_list[1]
    /\ word_list[1] \notin Range(SubSeq(_tried, 1, Len(_tried) - 1))

-----------------------------------------------------------------------------
(* Properties of get_max_entropy_word (checked under SpecEntropy).         *)

\* the counts of the feedback codes of source w1 over the targets of the
\* call, in the order the codes first occur
CodeCounts(w1) ==
    CounterValues(Counter([k \in DOMAIN call.targets |->
                              get_matches(w1, call.targets[k])]))

\* source i has maximal Shannon entropy among the sources of the call
MaximalEntropy(i) ==
    \A j \in DOMAIN call.sources :
        KeyOf(CodeCounts(call.sources[j])) >= KeyOf(CodeCounts(call.sources[i]))

\* every entry of the Pattern Cache is the code get_matches computes
CacheEncodes ==
    \A w1 \in DOMAIN _pattern_cache : \A w2 \in DOMAIN _pattern_cache[w1] :
        _pattern_cache[w1][w2] = get_matches(w1, w2)

\* with no targets: the first source (or the empty word), entropy 0
EmptyTargetsCase ==
    call.targets = <<>> =>
        /\ ret.best_guess = IF call.sources # <<>> THEN call.sources[1] ELSE <<>>
        /\ ret.max_entropy = ZeroEntropy

\* C9 as stated: the source returned is the first source of maximal entropy
\* (ties keep the earliest); with no targets it is the first source with
\* entropy 0; every Pattern Cache entry equals get_matches.
C9_FirstSourceOfMaximalEntropy ==
    (call.op = "get_max_entropy_word" /\ ret.returned) =>
        /\ (call.sources # <<>> /\ call.targets # <<>>) =>
              \E i \in DOMAIN call.sources :
                  /\ ret.best_guess = call.sources[i]
                  /\ MaximalEntropy(i)
                  /\ \A j \in 1..(i - 1) : ~MaximalEntropy(j)
        /\ EmptyTargetsCase
        /\ CacheEncodes

\* C9 amended: the source returned has maximal entropy, and a source before
\* it that has maximal entropy too lists its code counts in another order,
\* with three or more probabilities that are not all powers of 1/2 (the float
\* sums of the two may then differ); the rest as stated.
C9_SourceOfMaximalEntropyFirstUpToRounding ==
    (call.op = "get_max_entropy_word" /\ ret.returned) =>
        /\ (call.sources # <<>> /\ call.targets # <<>>) =>
              \E i \in DOMAIN call.sources :
                  /\ ret.best_guess = call.sources[i]
                  /\ MaximalEntropy(i)
                  /\ \A j \in 1..(i - 1) :
                        MaximalEntropy(j) =>
                            /\ CodeCounts(call.sources[j]) # CodeCounts(call.sources[i])
                            /\ \/ Sensitive(CodeCounts(call.sources[j]))
                               \/ Sensitive(CodeCounts(call.sources[i]))
        /\ EmptyTargetsCase
        /\ CacheEncodes

\* two sources tie at the maximal entropy with the same order of counts, the
\* first of them is returned, and its codes were already in the Pattern Cache
C9_Witness ==
    /\ call.op = "get_max_entropy_word" /\ ret.returned /\ call.n = 2
    /\ Len(call.targets) >= 3
    /\ \E i, j \in DOMAIN call.sources :
        /\ i < j
        /\ MaximalEntropy(i) /\ MaximalEntropy(j)
        /\ CodeCounts(call.sources[i]) = CodeCounts(call.sources[j])
        /\ ret.best_guess = call.sources[i]

====
